---- MODULE Spec2Model ----
(***************************************************************************)
(* A model of the netgear client: the record decoder parseDevicesString   *)
(* (client.go), the snapshot differ getChangedDevices and the polling     *)
(* engine OnDeviceChanged (listener.go).                                   *)
(*                                                                         *)
(* Go strings are modelled as sequences of one-character strings, so that *)
(* slicing (devices[2:]), strings.Split, net.ParseMAC, strconv.Atoi and   *)
(* net.ParseIP are computed character by character.                        *)
(***************************************************************************)
EXTENDS Integers, Sequences, FiniteSets, TLC

\* ------------------------------------------------------------------ bounds

\* Longest record list the decoder specification builds.
MaxDevices == 10
\* Positions of a record list that may hold any record of RecordPool; the
\* positions after them hold the plain record only.
MaxVaried == 2
\* Timer firings per engine.
MaxTicks == 3
\* Longest snapshot the differ specification builds.
MaxSnapshot == 2
MaxShared == 2

\* ----------------------------------------------------------------- strings

Min(a, b) == IF a < b THEN a ELSE b

\* s[from:] of Go, `from` counted from 0; the caller checks from <= len(s).
SliceFrom(s, from) == SubSeq(s, from + 1, Len(s))

\* Index of the first occurrence of character c in s, 0 when there is none.
IndexOf(s, c) ==
    LET I == {i \in 1..Len(s) : s[i] = c}
    IN  IF I = {} THEN 0 ELSE CHOOSE i \in I : \A j \in I : i <= j

\* strings.Split(s, sep) for a one-character separator: the substrings
\* between the separators, <<"">> for the empty string.
RECURSIVE Split(_, _)
Split(s, sep) ==
    LET i == IndexOf(s, sep)
    IN  IF i = 0 THEN <<s>>
        ELSE <<SubSeq(s, 1, i - 1)>> \o Split(SubSeq(s, i + 1, Len(s)), sep)

\* strings.Join(parts, sep).
RECURSIVE Join(_, _)
Join(parts, sep) ==
    IF Len(parts) = 0 THEN <<>>
    ELSE IF Len(parts) = 1 THEN parts[1]
    ELSE parts[1] \o <<sep>> \o Join(Tail(parts), sep)

DecDigits == <<"0", "1", "2", "3", "4", "5", "6", "7", "8", "9">>
HexLower == DecDigits \o <<"a", "b", "c", "d", "e", "f">>
HexUpper == DecDigits \o <<"A", "B", "C", "D", "E", "F">>

IsDigit(c) == \E i \in 1..10 : DecDigits[i] = c
DigitVal(c) == (CHOOSE i \in 1..10 : DecDigits[i] = c) - 1
IsHex(c) == \E i \in 1..16 : HexLower[i] = c \/ HexUpper[i] = c
HexVal(c) == (CHOOSE i \in 1..16 : HexLower[i] = c \/ HexUpper[i] = c) - 1

\* The decimal digits of n >= 0.
RECURSIVE NatDigits(_)
NatDigits(n) ==
    IF n < 10 THEN <<DecDigits[n + 1]>>
    ELSE NatDigits(n \div 10) \o <<DecDigits[(n % 10) + 1]>>

\* strconv.Itoa.
Itoa(n) == IF n < 0 THEN <<"-">> \o NatDigits(-n) ELSE NatDigits(n)

\* The value of a sequence of decimal digits.
RECURSIVE DigitsVal(_)
DigitsVal(s) ==
    IF Len(s) = 0 THEN 0
    ELSE 10 * DigitsVal(SubSeq(s, 1, Len(s) - 1)) + DigitVal(s[Len(s)])

\* strconv.Atoi: an optional sign and at least one decimal digit; anything
\* else, the empty string included, is an error and the value is 0.
Atoi(s) ==
    LET signed == Len(s) > 0 /\ s[1] \in {"+", "-"}
        body   == IF signed THEN Tail(s) ELSE s
    IN  IF Len(body) = 0 \/ \E i \in 1..Len(body) : ~IsDigit(body[i])
        THEN [ok |-> FALSE, val |-> 0]
        ELSE [ok |-> TRUE,
              val |-> IF signed /\ s[1] = "-" THEN -DigitsVal(body)
                      ELSE DigitsVal(body)]

\* net.ParseMAC: 6, 8 or 20 bytes, written as two hex digits per byte with
\* one separator, ':' or '-', or as four hex digits per group with '.'.
\* The bytes on success; any other string is an error.
ParseMAC(s) ==
    LET n     == Len(s)
        bad   == [ok |-> FALSE, mac |-> <<>>]
        byteAt(i) == 16 * HexVal(s[i]) + HexVal(s[i + 1])
    IN  IF n < 14 THEN bad
        ELSE IF s[3] \in {":", "-"} THEN
            IF (n + 1) % 3 # 0 \/ (n + 1) \div 3 \notin {6, 8, 20} THEN bad
            ELSE IF \E k \in 0..((n + 1) \div 3 - 1) :
                        \/ ~IsHex(s[3 * k + 1])
                        \/ ~IsHex(s[3 * k + 2])
                        \/ (3 * k + 3 <= n /\ s[3 * k + 3] # s[3])
                 THEN bad
                 ELSE [ok |-> TRUE,
                       mac |-> [k \in 1..((n + 1) \div 3) |-> byteAt(3 * (k - 1) + 1)]]
        ELSE IF s[5] = "." THEN
            IF (n + 1) % 5 # 0 \/ 2 * ((n + 1) \div 5) \notin {6, 8, 20} THEN bad
            ELSE IF \E g \in 0..((n + 1) \div 5 - 1) :
                        \/ \E j \in 1..4 : ~IsHex(s[5 * g + j])
                        \/ (5 * g + 5 <= n /\ s[5 * g + 5] # ".")
                 THEN bad
                 ELSE [ok |-> TRUE,
                       mac |-> [k \in 1..(2 * ((n + 1) \div 5)) |->
                                  byteAt(5 * ((k - 1) \div 2) + 2 * ((k - 1) % 2) + 1)]]
        ELSE bad

\* net.HardwareAddr.String: lower-case hex, bytes separated by ':'.
MACString(mac) ==
    Join([k \in 1..Len(mac) |->
            <<HexLower[(mac[k] \div 16) + 1], HexLower[(mac[k] % 16) + 1]>>], ":")

\* The nil net.IP.
NilIP == <<>>

\* net.ParseIP, dotted-decimal IPv4 only: four parts of one to three digits,
\* no leading zero, each at most 255; NilIP otherwise (IPv6 text is out of
\* the model's alphabet).
ParseIP(s) ==
    LET parts == Split(s, ".")
        okPart(p) ==
            /\ Len(p) \in 1..3
            /\ \A i \in 1..Len(p) : IsDigit(p[i])
            /\ (Len(p) > 1 => p[1] # "0")
            /\ DigitsVal(p) <= 255
    IN  IF Len(parts) = 4 /\ \A k \in 1..4 : okPart(parts[k])
        THEN [k \in 1..4 |-> DigitsVal(parts[k])]
        ELSE NilIP

\* net.IP.String for the addresses ParseIP returns; "" for the nil IP.
IPString(ip) ==
    IF ip = NilIP THEN <<>>
    ELSE Join([k \in 1..4 |-> NatDigits(ip[k])], ".")

\* ------------------------------------------------------------ the decoder

\* An AttachedDevice.
AttachedDevice(ip, name, mac, type, linkRate, signal) ==
    [IP |-> ip, Name |-> name, MAC |-> mac, Type |-> type,
     LinkRate |-> linkRate, Signal |-> signal]

\* What parseDevicesString gives: panicked (the slice devices[2:] of a string
\* shorter than two characters is a run-time panic), or an error and no
\* devices (nil), or no error and the devices.
ParseResult(panicked, err, devs) == [panicked |-> panicked, err |-> err, devs |-> devs]

\* parseDevice as it would be without the two tests for the empty string.
parseDeviceNoEmpty(devStr) ==
    LET parts    == Split(devStr, ";")
        mac      == ParseMAC(parts[4])
        signal   == Atoi(parts[6])
        linkRate == Atoi(parts[7])
    IN  IF Len(parts) # 8 THEN [err |-> "parts", dev |-> <<>>]
        ELSE IF ~mac.ok THEN [err |-> "mac", dev |-> <<>>]
        ELSE IF ~signal.ok THEN [err |-> "atoi", dev |-> <<>>]
        ELSE IF ~linkRate.ok THEN [err |-> "atoi", dev |-> <<>>]
        ELSE [err |-> "nil",
              dev |-> AttachedDevice(ParseIP(parts[2]), parts[3], mac.mac,
                                     parts[5], linkRate.val, signal.val)]

\* One device substring: the error of the first check that fails, or the device.
parseDevice(devStr) ==
    LET parts    == Split(devStr, ";")
        mac      == ParseMAC(parts[4])
        signal   == Atoi(parts[6])
        linkRate == Atoi(parts[7])
    IN  IF Len(parts) # 8 THEN [err |-> "parts", dev |-> <<>>]
        ELSE IF ~mac.ok THEN [err |-> "mac", dev |-> <<>>]
        ELSE IF ~signal.ok /\ parts[6] # <<>> THEN [err |-> "atoi", dev |-> <<>>]
        ELSE IF ~linkRate.ok /\ parts[7] # <<>> THEN [err |-> "atoi", dev |-> <<>>]
        ELSE [err |-> "nil",
              dev |-> AttachedDevice(ParseIP(parts[2]), parts[3], mac.mac,
                                     parts[5], linkRate.val, signal.val)]

\* parseLoop as it would be if an error returned the devices decoded so far.
RECURSIVE parseLoopPartial(_, _, _)
parseLoopPartial(devStrs, i, devList) ==
    IF i > Len(devStrs) THEN ParseResult(FALSE, "nil", devList)
    ELSE LET r == parseDevice(devStrs[i])
         IN  IF r.err # "nil" THEN ParseResult(FALSE, r.err, devList)
             ELSE parseLoopPartial(devStrs, i + 1, Append(devList, r.dev))

\* The loop over devStrs: returns at the first substring that fails.
RECURSIVE parseLoop(_, _, _)
parseLoop(devStrs, i, devList) ==
    IF i > Len(devStrs) THEN ParseResult(FALSE, "nil", devList)
    ELSE LET r == parseDevice(devStrs[i])
         IN  IF r.err # "nil" THEN ParseResult(FALSE, r.err, <<>>)
             ELSE parseLoop(devStrs, i + 1, Append(devList, r.dev))

\* parseDevicesString as it would be if nothing after the count decoded to
\* no device.
parseDevicesStringEmptyList(devices) ==
    IF Len(devices) < 2 THEN ParseResult(TRUE, "nil", <<>>)
    ELSE IF SliceFrom(devices, 2) = <<>> THEN ParseResult(FALSE, "nil", <<>>)
    ELSE parseLoop(Split(SliceFrom(devices, 2), "@"), 1, <<>>)

parseDevicesString(devices) ==
    IF Len(devices) < 2 THEN ParseResult(TRUE, "nil", <<>>)
    ELSE parseLoop(Split(SliceFrom(devices, 2), "@"), 1, <<>>)

\* The reference encoder of the documented shape: eight ';'-separated fields
\* per device (0 reserved, 1 IP, 2 name, 3 MAC, 4 type, 5 signal, 6 link
\* rate, 7 unused), the devices separated by '@', after the decimal count
\* of devices and a '@'.
encodeDevice(d) ==
    Join(<< <<"0">>, IPString(d.IP), d.Name, MACString(d.MAC), d.Type,
            Itoa(d.Signal), Itoa(d.LinkRate), <<"x">> >>, ";")

encodeDevices(devs) ==
    NatDigits(Len(devs)) \o <<"@">>
        \o Join([k \in 1..Len(devs) |-> encodeDevice(devs[k])], "@")

\* ------------------------------------------------------------- the differ

DeviceAdded == 0
DeviceRemoved == 1

ChangedDevice(dev, change) == [Device |-> dev, Change |-> change]

\* diffKeys as it would be if the first loop skipped the first old device.
diffKeysSkipFirst(oldDevices) ==
    {MACString(oldDevices[i].MAC) : i \in 2..Len(oldDevices)}

\* The first loop: the map diff gets the MAC string of every old device.
diffKeys(oldDevices) ==
    {MACString(oldDevices[i].MAC) : i \in 1..Len(oldDevices)}

\* scanNew as it would be without delete(diff, dev.MAC.String()).
RECURSIVE scanNewNoDelete(_, _, _, _)
scanNewNoDelete(newDevices, i, diff, change) ==
    IF i > Len(newDevices) THEN [diff |-> diff, change |-> change]
    ELSE LET dev == newDevices[i]
         IN  IF MACString(dev.MAC) \notin diff
             THEN scanNewNoDelete(newDevices, i + 1, diff,
                                  Append(change, ChangedDevice(dev, DeviceAdded)))
             ELSE scanNewNoDelete(newDevices, i + 1, diff, change)

\* The second loop, from position i of newDevices: a device whose key is not
\* in diff is appended as added, the key of any other is deleted from diff.
RECURSIVE scanNew(_, _, _, _)
scanNew(newDevices, i, diff, change) ==
    IF i > Len(newDevices) THEN [diff |-> diff, change |-> change]
    ELSE LET dev == newDevices[i]
             key == MACString(dev.MAC)
         IN  IF key \notin diff
             THEN scanNew(newDevices, i + 1, diff,
                          Append(change, ChangedDevice(dev, DeviceAdded)))
             ELSE scanNew(newDevices, i + 1, diff \ {key}, change)

\* scanOld as it would be if every old device were appended as removed.
scanOldAll(oldDevices, i, diff, change) ==
    change \o [k \in 1..Len(oldDevices) |-> ChangedDevice(oldDevices[k], DeviceRemoved)]

\* The third loop, from position i of oldDevices: a device whose key is still
\* in diff is appended as removed.
RECURSIVE scanOld(_, _, _, _)
scanOld(oldDevices, i, diff, change) ==
    IF i > Len(oldDevices) THEN change
    ELSE LET dev == oldDevices[i]
         IN  IF MACString(dev.MAC) \in diff
             THEN scanOld(oldDevices, i + 1, diff,
                          Append(change, ChangedDevice(dev, DeviceRemoved)))
             ELSE scanOld(oldDevices, i + 1, diff, change)

\* getChangedDevices as it would be with the removed devices collected
\* before the added ones.
getChangedDevicesRemovedFirst(oldDevices, newDevices) ==
    LET afterNew == scanNew(newDevices, 1, diffKeys(oldDevices), <<>>)
    IN  scanOld(oldDevices, 1, afterNew.diff, <<>>) \o afterNew.change

getChangedDevices(oldDevices, newDevices) ==
    LET afterNew == scanNew(newDevices, 1, diffKeys(oldDevices), <<>>)
    IN  scanOld(oldDevices, 1, afterNew.diff, afterNew.change)

\* ------------------------------------------------------------ sample data

MacA == <<170, 170, 170, 170, 170, 170>>
MacB == <<187, 187, 187, 187, 187, 187>>
MacC == <<12, 0, 255, 1, 2, 3>>

IP2 == <<10, 0, 0, 2>>
IP3 == <<10, 0, 0, 3>>

DevA == AttachedDevice(IP2, <<"p", "h">>, MacA, <<"w">>, 100, -50)
\* The device of MacA again, with another name, address, signal and rate.
DevA2 == AttachedDevice(IP3, <<"p", "c">>, MacA, <<"e">>, 54, -7)
DevB == AttachedDevice(IP3, <<"t", "v">>, MacB, <<"e">>, 0, 0)
DevC == AttachedDevice(NilIP, <<>>, MacC, <<"w">>, 1000, 12)

DevicePool == <<DevA, DevA2, DevB, DevC>>

\* ------------------------------------------------------------- the state

Engines == {1, 2}

VARIABLES
    \* The Client: SessionID, Host, Port, Username, Password.
    client,
    \* The process has died of a run-time panic in a watcher goroutine.
    panicked,
    \* Per engine (one OnDeviceChanged call):
    tickerOn,         \* the time.Ticker is running (created, not stopped)
    tickerC,          \* values waiting in ticker.C, a channel of capacity 1
    pc,               \* where the watcher goroutine is
    devices,          \* the baseline, the closure variable of OnDeviceChanged
    updatedDevices,   \* the snapshot fetched in this tick
    changedDevices,   \* the changes of this tick
    next,             \* position in changedDevices of the range loop
    err,              \* the error getDevices returned in this tick
    \* Per engine, history kept for the properties:
    calls,            \* the invocations of fn in the latest tick, in order
    fetched,          \* every snapshot getDevices has returned, in order
    outcomes,         \* "ok" or "err" for every tick whose getDevices has returned
    fired,            \* how often the timer has fired
    inFlight,         \* ticks begun and not yet finished
    stopped,          \* ticker.Stop has returned
    startedAfterStop, \* ticks begun after ticker.Stop has returned
    tickCalls,        \* the calls of Login and Devices in the latest tick
    stopPc,           \* where the watcher was when ticker.Stop returned
    replay,           \* the changes handed to fn so far, applied to the empty set
    \* The decoder on its own:
    recs,             \* the records of the input being built, as RecordPool indices
    input,            \* the string given to parseDevicesString
    decoded,          \* what it returned
    dpc,              \* "build", "ready", "done"
    \* The differ on its own:
    oldDevices, newDevices, change, fpc

engineVars == <<tickerOn, tickerC, pc, devices, updatedDevices, changedDevices,
                next, err, calls, fetched, outcomes, fired, inFlight, stopped,
                startedAfterStop, tickCalls, stopPc, replay>>
decoderVars == <<recs, input, decoded, dpc>>
differVars == <<oldDevices, newDevices, change, fpc>>
vars == <<client, panicked, engineVars, decoderVars, differVars>>

\* ------------------------------------------------------------- the client

DefaultSessionID == "A7D88AE69687E58D9A00"

NewClient(host, username, password) ==
    [SessionID |-> DefaultSessionID, Host |-> host, Port |-> 5000,
     Username |-> username, Password |-> password]

\* What the router may answer to a request: no answer (the transport fails),
\* an envelope that does not decode, or an envelope with a ResponseCode and,
\* for GetAttachDevice, the text of NewAttachDevice.
Response(kind, code, payload) == [kind |-> kind, code |-> code, payload |-> payload]

\* Login on an answer: the error it returns, "nil" for none.
Login(resp) ==
    IF resp.kind = "transport" THEN "transport"
    ELSE IF resp.kind = "xml" THEN "xml"
    ELSE IF resp.code # 0 THEN "login-code"
    ELSE "nil"

\* Devices as it would be if it handed NewAttachDevice to the decoder
\* without looking at the ResponseCode.
DevicesIgnoresCode(resp) ==
    IF resp.kind = "transport" THEN ParseResult(FALSE, "transport", <<>>)
    ELSE IF resp.kind = "xml" THEN ParseResult(FALSE, "xml", <<>>)
    ELSE parseDevicesString(resp.payload)

\* Devices on an answer.
Devices(resp) ==
    IF resp.kind = "transport" THEN ParseResult(FALSE, "transport", <<>>)
    ELSE IF resp.kind = "xml" THEN ParseResult(FALSE, "xml", <<>>)
    ELSE IF resp.code # 0 THEN ParseResult(FALSE, "devices-code", <<>>)
    ELSE parseDevicesString(resp.payload)

\* Login as it would be if it kept the session the router answered with.
clientKeepsSession(c, resp) ==
    IF resp.kind = "ok" /\ resp.code = 0 THEN [c EXCEPT !.SessionID = "session"] ELSE c

\* The client after Login: Login reads c.SessionID, c.Username and
\* c.Password, soap reads c.Host and c.Port, and no field is assigned.
clientAfterLogin(c, resp) == c

\* The client after Devices: only c.SessionID, c.Host and c.Port are read.
clientAfterDevices(c, resp) == c

\* One call of a Client method in a tick: the method, the router's answer
\* and what the method returned (for Login, the error alone).
Exchange(fn, resp, res) == [fn |-> fn, resp |-> resp, res |-> res]

\* The answers the model's router gives to Login.
LoginResponses ==
    {Response("transport", 0, <<>>), Response("xml", 0, <<>>),
     Response("ok", 401, <<>>), Response("ok", 0, <<>>)}

\* A device substring with seven fields only.
ShortRecord == Join(<< <<"0">>, <<>>, <<"t", "v">>, MACString(MacB), <<"e">>, <<>>, <<>> >>, ";")

\* The answers the model's router gives to GetAttachDevice.
DevicesResponses ==
    {Response("transport", 0, <<>>), Response("xml", 0, <<>>),
     Response("ok", 1, <<>>),
     Response("ok", 0, <<>>),
     Response("ok", 0, encodeDevices(<<>>)),
     Response("ok", 0, encodeDevices(<<DevA>>) \o <<"@">> \o ShortRecord),
     Response("ok", 0, encodeDevices(<<DevA, DevB>>)),
     Response("ok", 0, encodeDevices(<<DevB, DevC>>)),
     Response("ok", 0, encodeDevices(<<DevA2, DevB>>)),
     Response("ok", 0, encodeDevices(<<DevA2, DevA>>))}

\* The answers on which Login returns nil.
LoginOk == {resp \in LoginResponses : Login(resp) = "nil"}

\* ------------------------------------------------------------- the engine

\* An invocation of fn: the *ChangedDevice (<<>> for nil, <<c>> for &c) and
\* the error ("nil" for none).
Call(changed, e) == [change |-> changed, err |-> e]

Set(f, e, v) == [f EXCEPT ![e] = v]

\* What a consumer of the handler's changes holds after one more change c:
\* the set of MAC addresses with c applied, and whether every change so far
\* added an address that was not in the set or removed one that was.
Replayed(r, c) ==
    LET m == c.Device.MAC
    IN  IF c.Change = DeviceAdded
        THEN [macs |-> r.macs \cup {m}, ok |-> r.ok /\ m \notin r.macs]
        ELSE [macs |-> r.macs \ {m}, ok |-> r.ok /\ m \in r.macs]

\* The history h with x added; a history keeps the latest MaxTicks entries.
Remember(h, x) == IF Len(h) < MaxTicks THEN Append(h, x) ELSE Append(Tail(h), x)

Init ==
    /\ client = NewClient("192.168.1.1", "admin", "")
    /\ panicked = FALSE
    /\ tickerOn = [e \in Engines |-> FALSE]
    /\ tickerC = [e \in Engines |-> 0]
    /\ pc = [e \in Engines |-> "idle"]
    /\ devices = [e \in Engines |-> <<>>]
    /\ updatedDevices = [e \in Engines |-> <<>>]
    /\ changedDevices = [e \in Engines |-> <<>>]
    /\ next = [e \in Engines |-> 0]
    /\ err = [e \in Engines |-> "nil"]
    /\ calls = [e \in Engines |-> <<>>]
    /\ fetched = [e \in Engines |-> <<>>]
    /\ outcomes = [e \in Engines |-> <<>>]
    /\ fired = [e \in Engines |-> 0]
    /\ inFlight = [e \in Engines |-> 0]
    /\ stopped = [e \in Engines |-> FALSE]
    /\ startedAfterStop = [e \in Engines |-> 0]
    /\ tickCalls = [e \in Engines |-> <<>>]
    /\ stopPc = [e \in Engines |-> "none"]
    /\ replay = [e \in Engines |-> [macs |-> {}, ok |-> TRUE]]
    /\ recs = <<>>
    /\ input = <<>>
    /\ decoded = ParseResult(FALSE, "nil", <<>>)
    /\ dpc = "build"
    /\ oldDevices = <<>>
    /\ newDevices = <<>>
    /\ change = <<>>
    /\ fpc = "build"

\* OnDeviceChanged as it would be if the baseline started as a snapshot
\* taken at the call instead of empty.
OnDeviceChangedPrimed(e) ==
    /\ ~panicked
    /\ pc[e] = "idle"
    /\ tickerOn' = Set(tickerOn, e, TRUE)
    /\ devices' = Set(devices, e, <<DevA>>)
    /\ pc' = Set(pc, e, "wait")
    /\ UNCHANGED <<client, panicked, tickerC, updatedDevices, changedDevices, next,
                   err, calls, fetched, outcomes, fired, inFlight, stopped,
                   startedAfterStop, tickCalls, stopPc, replay, decoderVars, differVars>>

\* OnDeviceChanged, called with a positive poll interval (time.NewTicker
\* panics on any other): a new ticker, an empty baseline, and the watcher
\* goroutine started, waiting on ticker.C.
OnDeviceChanged(e) ==
    /\ ~panicked
    /\ pc[e] = "idle"
    /\ tickerOn' = Set(tickerOn, e, TRUE)
    /\ devices' = Set(devices, e, <<>>)
    /\ pc' = Set(pc, e, "wait")
    /\ UNCHANGED <<client, panicked, tickerC, updatedDevices, changedDevices, next,
                   err, calls, fetched, outcomes, fired, inFlight, stopped,
                   startedAfterStop, tickCalls, stopPc, replay, decoderVars, differVars>>

\* The runtime's timer fires: a value is sent to ticker.C without blocking,
\* and dropped when the channel already holds one.
TickerFire(e) ==
    /\ ~panicked
    /\ tickerOn[e]
    /\ fired[e] < MaxTicks
    /\ fired' = Set(fired, e, fired[e] + 1)
    /\ tickerC' = Set(tickerC, e, Min(tickerC[e] + 1, 1))
    /\ UNCHANGED <<client, panicked, tickerOn, pc, devices, updatedDevices,
                   changedDevices, next, err, calls, fetched, outcomes, inFlight,
                   stopped, startedAfterStop, tickCalls, stopPc, replay, decoderVars, differVars>>

\* TickerFire for a timer that fires without end: the firings are not
\* counted.
TickerFireLive(e) ==
    /\ ~panicked
    /\ tickerOn[e]
    /\ tickerC' = Set(tickerC, e, Min(tickerC[e] + 1, 1))
    /\ UNCHANGED <<client, panicked, tickerOn, pc, devices, updatedDevices,
                   changedDevices, next, err, calls, fetched, outcomes, fired,
                   inFlight, stopped, startedAfterStop, tickCalls, stopPc, replay,
                   decoderVars, differVars>>

\* Stop as it would be if it did not turn the timer off.
StopLeavesTimer(e) ==
    /\ ~panicked
    /\ pc[e] # "idle"
    /\ ~stopped[e]
    /\ stopped' = Set(stopped, e, TRUE)
    /\ stopPc' = Set(stopPc, e, pc[e])
    /\ UNCHANGED <<client, panicked, tickerOn, tickerC, pc, devices, updatedDevices,
                   changedDevices, next, err, calls, fetched, outcomes, fired,
                   inFlight, startedAfterStop, tickCalls, replay, decoderVars,
                   differVars>>

\* The caller stops the returned ticker: no more values are sent; the channel
\* is not closed and keeps what it holds.
Stop(e) ==
    /\ ~panicked
    /\ pc[e] # "idle"
    /\ ~stopped[e]
    /\ tickerOn' = Set(tickerOn, e, FALSE)
    /\ stopped' = Set(stopped, e, TRUE)
    /\ stopPc' = Set(stopPc, e, pc[e])
    /\ UNCHANGED <<client, panicked, tickerC, pc, devices, updatedDevices,
                   changedDevices, next, err, calls, fetched, outcomes, fired,
                   inFlight, startedAfterStop, tickCalls, replay, decoderVars,
                   differVars>>

\* Receive as it would be if every value of ticker.C started a tick of its
\* own (go func() per tick) instead of being taken by the one watcher loop.
ReceiveAnytime(e) ==
    /\ ~panicked
    /\ pc[e] # "idle"
    /\ tickerC[e] > 0
    /\ tickerC' = Set(tickerC, e, tickerC[e] - 1)
    /\ pc' = Set(pc, e, "login")
    /\ calls' = Set(calls, e, <<>>)
    /\ tickCalls' = Set(tickCalls, e, <<>>)
    /\ inFlight' = Set(inFlight, e, inFlight[e] + 1)
    /\ startedAfterStop' =
         Set(startedAfterStop, e, startedAfterStop[e] + (IF stopped[e] THEN 1 ELSE 0))
    /\ UNCHANGED <<client, panicked, tickerOn, devices, updatedDevices,
                   changedDevices, next, err, fetched, outcomes, fired, stopped,
                   stopPc, replay, decoderVars, differVars>>

\* for _ = range ticker.C: the watcher takes a value and a tick begins.
Receive(e) ==
    /\ ~panicked
    /\ pc[e] = "wait"
    /\ tickerC[e] > 0
    /\ tickerC' = Set(tickerC, e, tickerC[e] - 1)
    /\ pc' = Set(pc, e, "login")
    /\ calls' = Set(calls, e, <<>>)
    /\ tickCalls' = Set(tickCalls, e, <<>>)
    /\ inFlight' = Set(inFlight, e, inFlight[e] + 1)
    /\ startedAfterStop' =
         Set(startedAfterStop, e, startedAfterStop[e] + (IF stopped[e] THEN 1 ELSE 0))
    /\ UNCHANGED <<client, panicked, tickerOn, devices, updatedDevices,
                   changedDevices, next, err, fetched, outcomes, fired, stopped,
                   stopPc, replay, decoderVars, differVars>>

\* CallLogin as it would be if getDevices dropped Login's error and went on
\* to c.Devices().
CallLoginIgnoresError(e) ==
    /\ ~panicked
    /\ pc[e] = "login"
    /\ \E resp \in LoginResponses :
         /\ tickCalls' = Set(tickCalls, e,
               Append(tickCalls[e],
                      Exchange("Login", resp, ParseResult(FALSE, Login(resp), <<>>))))
         /\ client' = clientAfterLogin(client, resp)
    /\ pc' = Set(pc, e, "devices")
    /\ UNCHANGED <<panicked, tickerOn, tickerC, devices, updatedDevices,
                   changedDevices, next, err, outcomes, calls, fetched, fired,
                   inFlight, stopped, startedAfterStop, stopPc, replay, decoderVars,
                   differVars>>

\* getDevices, first half: c.Login(); its error ends getDevices.
CallLoginWith(e, resp) ==
    /\ ~panicked
    /\ pc[e] = "login"
    /\ LET r == Login(resp)
       IN  /\ tickCalls' = Set(tickCalls, e,
                 Append(tickCalls[e],
                        Exchange("Login", resp, ParseResult(FALSE, r, <<>>))))
           /\ client' = clientAfterLogin(client, resp)
           /\ IF r # "nil"
              THEN /\ err' = Set(err, e, r)
                   /\ outcomes' = Set(outcomes, e, Remember(outcomes[e], "err"))
                   /\ pc' = Set(pc, e, "failed")
              ELSE /\ pc' = Set(pc, e, "devices")
                   /\ UNCHANGED <<err, outcomes>>
    /\ UNCHANGED <<panicked, tickerOn, tickerC, devices, updatedDevices,
                   changedDevices, next, calls, fetched, fired, inFlight, stopped,
                   startedAfterStop, stopPc, replay, decoderVars, differVars>>

\* The router answers the login request with one of its answers.
CallLogin(e) == \E resp \in LoginResponses : CallLoginWith(e, resp)

\* getDevices, second half: c.Devices(); on success the watcher computes
\* getChangedDevices(devices, updatedDevices) and enters the range loop.
CallDevicesWith(e, resp) ==
    /\ ~panicked
    /\ pc[e] = "devices"
    /\ LET r == Devices(resp)
       IN  /\ tickCalls' = Set(tickCalls, e,
                 Append(tickCalls[e], Exchange("Devices", resp, r)))
           /\ client' = clientAfterDevices(client, resp)
           /\ IF r.panicked
              THEN /\ panicked' = TRUE
                   /\ UNCHANGED <<pc, err, outcomes, fetched, updatedDevices,
                                  changedDevices, next>>
              ELSE IF r.err # "nil"
              THEN /\ err' = Set(err, e, r.err)
                   /\ outcomes' = Set(outcomes, e, Remember(outcomes[e], "err"))
                   /\ pc' = Set(pc, e, "failed")
                   /\ UNCHANGED <<panicked, fetched, updatedDevices,
                                  changedDevices, next>>
              ELSE /\ updatedDevices' = Set(updatedDevices, e, r.devs)
                   /\ changedDevices' =
                        Set(changedDevices, e, getChangedDevices(devices[e], r.devs))
                   /\ next' = Set(next, e, 1)
                   /\ fetched' = Set(fetched, e, Remember(fetched[e], r.devs))
                   /\ outcomes' = Set(outcomes, e, Remember(outcomes[e], "ok"))
                   /\ pc' = Set(pc, e, "notify")
                   /\ UNCHANGED <<panicked, err>>
    /\ UNCHANGED <<tickerOn, tickerC, devices, calls, fired, inFlight,
                   stopped, startedAfterStop, stopPc, replay, decoderVars, differVars>>

\* The router answers GetAttachDevice with one of its answers.
CallDevices(e) == \E resp \in DevicesResponses : CallDevicesWith(e, resp)

\* ErrCall as it would be if the handler were handed a device record
\* together with the error.
ErrCallWithDevice(e) ==
    /\ ~panicked
    /\ pc[e] = "failed"
    /\ calls' = Set(calls, e,
                    Append(calls[e], Call(<<ChangedDevice(DevA, DeviceRemoved)>>, err[e])))
    /\ pc' = Set(pc, e, "inErrFn")
    /\ UNCHANGED <<client, panicked, tickerOn, tickerC, devices, updatedDevices,
                   changedDevices, next, err, fetched, outcomes, fired, inFlight,
                   stopped, startedAfterStop, tickCalls, stopPc, replay, decoderVars, differVars>>

\* fn(nil, err) is called.
ErrCall(e) ==
    /\ ~panicked
    /\ pc[e] = "failed"
    /\ calls' = Set(calls, e, Append(calls[e], Call(<<>>, err[e])))
    /\ pc' = Set(pc, e, "inErrFn")
    /\ UNCHANGED <<client, panicked, tickerOn, tickerC, devices, updatedDevices,
                   changedDevices, next, err, fetched, outcomes, fired, inFlight,
                   stopped, startedAfterStop, tickCalls, stopPc, replay, decoderVars, differVars>>

\* ErrReturn as it would be if devices = updatedDevices were also run on
\* the error path, where updatedDevices is nil.
ErrReturnAssigns(e) ==
    /\ ~panicked
    /\ pc[e] = "inErrFn"
    /\ err' = Set(err, e, "nil")
    /\ devices' = Set(devices, e, updatedDevices[e])
    /\ pc' = Set(pc, e, "wait")
    /\ inFlight' = Set(inFlight, e, inFlight[e] - 1)
    /\ UNCHANGED <<client, panicked, tickerOn, tickerC, updatedDevices,
                   changedDevices, next, calls, fetched, outcomes, fired, stopped,
                   startedAfterStop, tickCalls, stopPc, replay, decoderVars, differVars>>

\* fn(nil, err) returns; continue: the tick is over and the baseline is as
\* it was.
ErrReturn(e) ==
    /\ ~panicked
    /\ pc[e] = "inErrFn"
    /\ err' = Set(err, e, "nil")
    /\ pc' = Set(pc, e, "wait")
    /\ inFlight' = Set(inFlight, e, inFlight[e] - 1)
    /\ UNCHANGED <<client, panicked, tickerOn, tickerC, devices, updatedDevices,
                   changedDevices, next, calls, fetched, outcomes, fired, stopped,
                   startedAfterStop, tickCalls, stopPc, replay, decoderVars, differVars>>

\* fn(&changedDevice, nil) is called for the next change.
FnCall(e) ==
    /\ ~panicked
    /\ pc[e] = "notify"
    /\ next[e] <= Len(changedDevices[e])
    /\ calls' = Set(calls, e, Append(calls[e], Call(<<changedDevices[e][next[e]]>>, "nil")))
    /\ replay' = Set(replay, e, Replayed(replay[e], changedDevices[e][next[e]]))
    /\ pc' = Set(pc, e, "inFn")
    /\ UNCHANGED <<client, panicked, tickerOn, tickerC, devices, updatedDevices,
                   changedDevices, next, err, fetched, outcomes, fired, inFlight,
                   stopped, startedAfterStop, tickCalls, stopPc, decoderVars, differVars>>

\* It returns, and the range loop moves on.
FnReturn(e) ==
    /\ ~panicked
    /\ pc[e] = "inFn"
    /\ next' = Set(next, e, next[e] + 1)
    /\ pc' = Set(pc, e, "notify")
    /\ UNCHANGED <<client, panicked, tickerOn, tickerC, devices, updatedDevices,
                   changedDevices, calls, err, fetched, outcomes, fired, inFlight,
                   stopped, startedAfterStop, tickCalls, stopPc, replay, decoderVars, differVars>>

\* Replace as it would be if devices were one variable of the package and
\* not a variable of each call of OnDeviceChanged.
ReplaceShared(e) ==
    /\ ~panicked
    /\ pc[e] = "notify"
    /\ next[e] > Len(changedDevices[e])
    /\ devices' = [f \in Engines |-> updatedDevices[e]]
    /\ updatedDevices' = Set(updatedDevices, e, <<>>)
    /\ changedDevices' = Set(changedDevices, e, <<>>)
    /\ next' = Set(next, e, 0)
    /\ pc' = Set(pc, e, "wait")
    /\ inFlight' = Set(inFlight, e, inFlight[e] - 1)
    /\ UNCHANGED <<client, panicked, tickerOn, tickerC, calls, err, fetched,
                   outcomes, fired, stopped, startedAfterStop, tickCalls, stopPc, replay,
                   decoderVars, differVars>>

\* Replace as it would be if the baseline were kept when the tick found no
\* change.
ReplaceOnlyOnChange(e) ==
    /\ ~panicked
    /\ pc[e] = "notify"
    /\ next[e] > Len(changedDevices[e])
    /\ devices' = IF changedDevices[e] = <<>> THEN devices
                  ELSE Set(devices, e, updatedDevices[e])
    /\ updatedDevices' = Set(updatedDevices, e, <<>>)
    /\ changedDevices' = Set(changedDevices, e, <<>>)
    /\ next' = Set(next, e, 0)
    /\ pc' = Set(pc, e, "wait")
    /\ inFlight' = Set(inFlight, e, inFlight[e] - 1)
    /\ UNCHANGED <<client, panicked, tickerOn, tickerC, calls, err, fetched,
                   outcomes, fired, stopped, startedAfterStop, tickCalls, stopPc, replay,
                   decoderVars, differVars>>

\* The range loop is over: devices = updatedDevices, and the tick is over.
Replace(e) ==
    /\ ~panicked
    /\ pc[e] = "notify"
    /\ next[e] > Len(changedDevices[e])
    /\ devices' = Set(devices, e, updatedDevices[e])
    /\ updatedDevices' = Set(updatedDevices, e, <<>>)
    /\ changedDevices' = Set(changedDevices, e, <<>>)
    /\ next' = Set(next, e, 0)
    /\ pc' = Set(pc, e, "wait")
    /\ inFlight' = Set(inFlight, e, inFlight[e] - 1)
    /\ UNCHANGED <<client, panicked, tickerOn, tickerC, calls, err, fetched,
                   outcomes, fired, stopped, startedAfterStop, tickCalls, stopPc, replay,
                   decoderVars, differVars>>

\* The watcher goroutine of engine e.
watcher(e) ==
    \/ Receive(e)
    \/ CallLogin(e)
    \/ CallDevices(e)
    \/ ErrCall(e)
    \/ ErrReturn(e)
    \/ FnCall(e)
    \/ FnReturn(e)
    \/ Replace(e)

\* One engine: the caller, the runtime's timer and the watcher.
Next ==
    \E e \in {1} :
        \/ OnDeviceChanged(e)
        \/ TickerFire(e)
        \/ Stop(e)
        \/ watcher(e)

Spec == Init /\ [][Next]_vars

\* Two engines started by two calls of OnDeviceChanged on the same client,
\* neither of them stopped; their timers fire MaxShared times in all.
NextTwo ==
    \E e \in Engines :
        \/ OnDeviceChanged(e)
        \/ (fired[1] + fired[2] < MaxShared /\ TickerFire(e))
        \/ watcher(e)

SpecTwo == Init /\ [][NextTwo]_vars

\* One engine that is never stopped and whose timer fires without end.
NextLive ==
    \E e \in {1} :
        \/ OnDeviceChanged(e)
        \/ TickerFireLive(e)
        \/ watcher(e)

\* The timer keeps firing, the watcher goroutine keeps being scheduled, and
\* the router answers successfully again and again when asked again and
\* again: Login returns nil infinitely often when it is called infinitely
\* often, and so does Devices return devices. The last condition is strong
\* fairness of the successful answer to GetAttachDevice, written on the
\* states before and after it: a watcher that has been stopped by a panic is
\* not asking any more.
Fairness ==
    /\ WF_vars(TickerFireLive(1))
    /\ WF_vars(watcher(1))
    /\ SF_vars(\E resp \in LoginOk : CallLoginWith(1, resp))
    /\ ([]<>(~panicked /\ pc[1] = "devices") => []<>(pc[1] = "notify"))

SpecLive == Init /\ [][NextLive]_vars /\ Fairness

\* ----------------------------------------------------- the decoder alone

\* Device substrings written by hand: fields 0 to 7.
Record(f1, f2, f3, f4, f5, f6) ==
    Join(<< <<"0">>, f1, f2, f3, f4, f5, f6, <<"x">> >>, ";")

\* What a record of an input may be: the encoding of a device, or a text.
RecordPool ==
    << [dev |-> <<DevA>>, text |-> encodeDevice(DevA)],
       [dev |-> <<DevB>>, text |-> encodeDevice(DevB)],
       [dev |-> <<DevC>>, text |-> encodeDevice(DevC)],
       \* signal and link rate empty
       [dev |-> <<>>, text |-> Record(IPString(IP3), <<"t", "v">>, MACString(MacB),
                                       <<"e">>, <<>>, <<>>)],
       \* seven fields
       [dev |-> <<>>, text |-> ShortRecord],
       \* nine fields
       [dev |-> <<>>, text |-> encodeDevice(DevB) \o <<";", "y">>],
       \* field 3 is no MAC address
       [dev |-> <<>>, text |-> Record(IPString(IP3), <<"t", "v">>, <<"b", "b", ":", "b", "b">>,
                                       <<"e">>, <<"1">>, <<"2">>)],
       \* the signal is not a number
       [dev |-> <<>>, text |-> Record(IPString(IP3), <<"t", "v">>, MACString(MacB),
                                       <<"e">>, <<"-">>, <<"2">>)],
       \* the link rate is not a number
       [dev |-> <<>>, text |-> Record(IPString(IP3), <<"t", "v">>, MACString(MacB),
                                       <<"e">>, <<"+", "7">>, <<"5", "x">>)],
       \* the signal has a plus sign, the link rate is empty
       [dev |-> <<>>, text |-> Record(IPString(IP3), <<"t", "v">>, MACString(MacB),
                                       <<"e">>, <<"+", "7">>, <<>>)] >>

\* All records of rs are encodings of devices.
AllDevices(rs) == \A i \in 1..Len(rs) : RecordPool[rs[i]].dev # <<>>

\* The devices rs encodes.
SourceDevices(rs) == [i \in 1..Len(rs) |-> RecordPool[rs[i]].dev[1]]

\* The input with the records rs: count, '@', the records separated by '@'.
RawInput(rs) ==
    NatDigits(Len(rs)) \o <<"@">>
        \o Join([i \in 1..Len(rs) |-> RecordPool[rs[i]].text], "@")

\* The device list
\* "2@0;10.0.0.2;phone;aa:aa:aa:aa:aa:aa;wifi;-50;100;x@
\*  0;10.0.0.3;tv;bb:bb:bb:bb:bb:bb;eth;;;x".
ExampleInput ==
    << "2", "@", "0", ";", "1", "0", ".", "0", ".", "0", ".", "2", ";", "p",
       "h", "o", "n", "e", ";", "a", "a", ":", "a", "a", ":", "a", "a", ":",
       "a", "a", ":", "a", "a", ":", "a", "a", ";", "w", "i", "f", "i", ";",
       "-", "5", "0", ";", "1", "0", "0", ";", "x", "@", "0", ";", "1", "0",
       ".", "0", ".", "0", ".", "3", ";", "t", "v", ";", "b", "b", ":", "b",
       "b", ":", "b", "b", ":", "b", "b", ":", "b", "b", ":", "b", "b", ";",
       "e", "t", "h", ";", ";", ";", "x" >>

\* Payloads shorter than the two-character prefix.
ShortPayloads == {<<>>, <<"0">>, <<"@">>}

AppendRecord(r) ==
    /\ dpc = "build"
    /\ Len(recs) < MaxVaried
    /\ recs' = Append(recs, r)
    /\ UNCHANGED <<client, panicked, engineVars, input, decoded, dpc, differVars>>

PadRecord ==
    /\ dpc = "build"
    /\ Len(recs) >= MaxVaried
    /\ Len(recs) < MaxDevices
    \* the first record of RecordPool
    /\ recs' = Append(recs, 1)
    /\ UNCHANGED <<client, panicked, engineVars, input, decoded, dpc, differVars>>

\* The input is the reference encoding of the devices.
EncodeInput ==
    /\ dpc = "build"
    /\ AllDevices(recs)
    /\ input' = encodeDevices(SourceDevices(recs))
    /\ dpc' = "ready"
    /\ UNCHANGED <<client, panicked, engineVars, recs, decoded, differVars>>

\* The input holds a record that encodes no device.
WriteInput ==
    /\ dpc = "build"
    /\ ~AllDevices(recs)
    /\ input' = RawInput(recs)
    /\ dpc' = "ready"
    /\ UNCHANGED <<client, panicked, engineVars, recs, decoded, differVars>>

\* The input is shorter than two characters.
ShortInput ==
    /\ dpc = "build"
    /\ recs = <<>>
    /\ \E p \in ShortPayloads : input' = p
    /\ dpc' = "ready"
    /\ UNCHANGED <<client, panicked, engineVars, recs, decoded, differVars>>

\* The input is the example device list.
LiteralInput ==
    /\ dpc = "build"
    /\ recs = <<>>
    /\ input' = ExampleInput
    /\ dpc' = "ready"
    /\ UNCHANGED <<client, panicked, engineVars, recs, decoded, differVars>>

Decode ==
    /\ dpc = "ready"
    /\ decoded' = parseDevicesString(input)
    /\ dpc' = "done"
    /\ UNCHANGED <<client, panicked, engineVars, recs, input, differVars>>

NextDecoder ==
    \/ \E r \in 1..Len(RecordPool) : AppendRecord(r)
    \/ PadRecord
    \/ EncodeInput
    \/ WriteInput
    \/ ShortInput
    \/ LiteralInput
    \/ Decode

SpecDecoder == Init /\ [][NextDecoder]_vars

\* ------------------------------------------------------ the differ alone

AddOld(d) ==
    /\ fpc = "build"
    /\ Len(oldDevices) < MaxSnapshot
    /\ oldDevices' = Append(oldDevices, d)
    /\ UNCHANGED <<client, panicked, engineVars, decoderVars, newDevices, change, fpc>>

AddNew(d) ==
    /\ fpc = "build"
    /\ Len(newDevices) < MaxSnapshot
    /\ newDevices' = Append(newDevices, d)
    /\ UNCHANGED <<client, panicked, engineVars, decoderVars, oldDevices, change, fpc>>

Diff ==
    /\ fpc = "build"
    /\ change' = getChangedDevices(oldDevices, newDevices)
    /\ fpc' = "done"
    /\ UNCHANGED <<client, panicked, engineVars, decoderVars, oldDevices, newDevices>>

NextDiffer ==
    \/ \E i \in 1..Len(DevicePool) : AddOld(DevicePool[i])
    \/ \E i \in 1..Len(DevicePool) : AddNew(DevicePool[i])
    \/ Diff

SpecDiffer == Init /\ [][NextDiffer]_vars

\* ------------------------------------------------------------ properties

Last(s) == s[Len(s)]

\* The snapshot of the latest successful fetch, and of the one before it;
\* <<>> when there is none.
LastSnapshot(e) == IF Len(fetched[e]) = 0 THEN <<>> ELSE Last(fetched[e])
PrevSnapshot(e) == IF Len(fetched[e]) < 2 THEN <<>> ELSE fetched[e][Len(fetched[e]) - 1]

\* The latest tick of e is over, and getDevices succeeded (failed) in it.
TickDoneOk(e) == pc[e] = "wait" /\ outcomes[e] # <<>> /\ Last(outcomes[e]) = "ok"
TickDoneErr(e) == pc[e] = "wait" /\ outcomes[e] # <<>> /\ Last(outcomes[e]) = "err"

\* The invocations of fn that hand over the changes cs, in order.
CallsOf(cs) == [i \in 1..Len(cs) |-> Call(<<cs[i]>>, "nil")]

\* C1: a tick in which Login or Devices returns an error leaves the baseline
\* as it was: outside the notification loop the baseline is the snapshot of
\* the latest successful fetch, however many failed ticks followed it, and
\* the changes a successful tick hands to fn are exactly
\* getChangedDevices(snapshot of the previous successful fetch, snapshot
\* fetched in this tick).
C1_BaselineSurvivesFailures ==
    \A e \in Engines :
        /\ pc[e] \in {"idle", "wait", "login", "devices", "failed", "inErrFn"}
              => devices[e] = LastSnapshot(e)
        /\ pc[e] \in {"notify", "inFn"}
              => /\ devices[e] = PrevSnapshot(e)
                 /\ updatedDevices[e] = LastSnapshot(e)
        /\ TickDoneOk(e)
              => calls[e] = CallsOf(getChangedDevices(PrevSnapshot(e), LastSnapshot(e)))

\* A successful tick, a failed one, and a successful one that fetched another
\* snapshot and reported changes.
C1_Witness ==
    /\ pc[1] = "wait"
    /\ outcomes[1] = <<"ok", "err", "ok">>
    /\ fetched[1][1] # fetched[1][2]
    /\ calls[1] # <<>>

\* C2: in a tick in which Login or Devices returns an error, fn is invoked
\* exactly once, with a nil *ChangedDevice and that error, and never with a
\* device change. (A tick whose Devices panics returns no error; the process
\* ends there.)
C2_ErrorReportedOnce ==
    \A e \in Engines :
        /\ pc[e] = "failed" => calls[e] = <<>> /\ err[e] # "nil"
        /\ pc[e] = "inErrFn" => calls[e] = <<Call(<<>>, err[e])>> /\ err[e] # "nil"
        /\ TickDoneErr(e)
              => /\ Len(calls[e]) = 1
                 /\ calls[e][1].change = <<>>
                 /\ calls[e][1].err # "nil"

\* A tick that failed in the decoder while the baseline held devices.
C2_Witness ==
    /\ TickDoneErr(1)
    /\ devices[1] # <<>>
    /\ calls[1] = <<Call(<<>>, "parts")>>

\* The MAC addresses of the sample devices.
PoolMACs == {DevicePool[i].MAC : i \in 1..Len(DevicePool)}

\* How many devices of snapshot s have the MAC address m.
Occurrences(s, m) == Cardinality({i \in 1..Len(s) : s[i].MAC = m})

\* How many changes of kind k in cs are for the MAC address m.
Changes(cs, k, m) ==
    Cardinality({i \in 1..Len(cs) : cs[i].Change = k /\ cs[i].Device.MAC = m})

\* No MAC address is twice in s.
UniqueMACs(s) == \A i, j \in 1..Len(s) : s[i].MAC = s[j].MAC => i = j

\* C3 as stated: whatever the snapshots, a MAC only in old gives exactly one
\* Removed (and no Added), a MAC only in new exactly one Added (and no
\* Removed), a MAC in both gives no change.
C3_OneChangePerMAC ==
    fpc = "done" =>
        \A m \in PoolMACs :
            LET inOld   == Occurrences(oldDevices, m) > 0
                inNew   == Occurrences(newDevices, m) > 0
                added   == Changes(change, DeviceAdded, m)
                removed == Changes(change, DeviceRemoved, m)
            IN  /\ inOld /\ ~inNew => removed = 1 /\ added = 0
                /\ ~inOld /\ inNew => added = 1 /\ removed = 0
                /\ inOld /\ inNew => added = 0 /\ removed = 0

\* C3 as amended: the changes are counted per occurrence. A MAC only in old
\* gives one Removed for each of its devices in old, a MAC only in new one
\* Added for each of its devices in new, and a MAC in both gives no Removed
\* and one Added for each of its devices in new after the first; so with
\* MACs unique inside each snapshot: one Removed, one Added and no change,
\* whatever the other fields are.
C3_ChangesPerOccurrence ==
    fpc = "done" =>
        \A m \in PoolMACs :
            LET nOld    == Occurrences(oldDevices, m)
                nNew    == Occurrences(newDevices, m)
                added   == Changes(change, DeviceAdded, m)
                removed == Changes(change, DeviceRemoved, m)
            IN  /\ Len(change) <= Len(oldDevices) + Len(newDevices)
                /\ nOld > 0 /\ nNew = 0 => removed = nOld /\ added = 0
                /\ nOld = 0 => added = nNew /\ removed = 0
                /\ nOld > 0 /\ nNew > 0 => added = nNew - 1 /\ removed = 0

\* The device of MacA is in both snapshots with other field values, DevB only
\* in old, DevC only in new.
C3_Witness ==
    /\ fpc = "done"
    /\ oldDevices = <<DevA, DevB>>
    /\ newDevices = <<DevA2, DevC>>
    /\ change = <<ChangedDevice(DevC, DeviceAdded), ChangedDevice(DevB, DeviceRemoved)>>

\* The devices of s whose MAC address an earlier device of s has.
RECURSIVE Repeats(_, _)
Repeats(s, i) ==
    IF i > Len(s) THEN <<>>
    ELSE IF \E j \in 1..(i - 1) : s[j].MAC = s[i].MAC
         THEN <<s[i]>> \o Repeats(s, i + 1)
         ELSE Repeats(s, i + 1)

\* C4 as stated: the diff of any snapshot against itself is empty.
C4_SelfDiffEmpty ==
    fpc = "done" /\ oldDevices = newDevices => change = <<>>

\* C4 as amended: the diff of a snapshot against itself is empty when no MAC
\* is twice in it; in general it holds one Added for every device whose MAC
\* an earlier device of the snapshot has, and no Removed.
C4_SelfDiffRepeats ==
    fpc = "done" /\ oldDevices = newDevices =>
        /\ change = [i \in 1..Len(Repeats(newDevices, 1)) |->
                        ChangedDevice(Repeats(newDevices, 1)[i], DeviceAdded)]
        /\ UniqueMACs(newDevices) => change = <<>>

\* A snapshot of two devices with two MACs diffed against itself.
C4_Witness ==
    /\ fpc = "done"
    /\ oldDevices = <<DevA, DevB>>
    /\ newDevices = oldDevices
    /\ change = <<>>

\* a is b with some elements left out, the order kept.
RECURSIVE IsSubSeq(_, _)
IsSubSeq(a, b) ==
    IF Len(a) = 0 THEN TRUE
    ELSE IF Len(b) = 0 THEN FALSE
    ELSE IF a[1] = b[1] THEN IsSubSeq(Tail(a), Tail(b))
    ELSE IsSubSeq(a, Tail(b))

\* The invocations cs are `added` Added changes, their devices in the order
\* of snapshot new, and then Removed changes only, their devices in the
\* order of snapshot old.
AddedThenRemoved(cs, added, old, new) ==
    /\ \A i \in 1..Len(cs) :
          /\ cs[i].err = "nil"
          /\ Len(cs[i].change) = 1
          /\ cs[i].change[1].Change = (IF i <= added THEN DeviceAdded ELSE DeviceRemoved)
    /\ IsSubSeq([i \in 1..added |-> cs[i].change[1].Device], new)
    /\ IsSubSeq([i \in 1..(Len(cs) - added) |-> cs[added + i].change[1].Device], old)

\* C5: in a successful tick fn is invoked once per change, in the order of
\* changedDevices: first the Added changes, in the order of the new
\* snapshot, then the Removed changes, in the order of the baseline; no
\* Removed comes before an Added of the same tick.
C5_AddedBeforeRemoved ==
    \A e \in Engines :
        /\ pc[e] = "notify" => calls[e] = CallsOf(SubSeq(changedDevices[e], 1, next[e] - 1))
        /\ pc[e] = "inFn" => calls[e] = CallsOf(SubSeq(changedDevices[e], 1, next[e]))
        /\ TickDoneOk(e)
              => \E added \in 0..Len(calls[e]) :
                    AddedThenRemoved(calls[e], added, PrevSnapshot(e), LastSnapshot(e))

\* The baseline {A, B}, the new snapshot {B, C}: Added(C), then Removed(A).
C5_Witness ==
    /\ TickDoneOk(1)
    /\ PrevSnapshot(1) = <<DevA, DevB>>
    /\ LastSnapshot(1) = <<DevB, DevC>>
    /\ calls[1] = CallsOf(<<ChangedDevice(DevC, DeviceAdded),
                            ChangedDevice(DevA, DeviceRemoved)>>)

\* C6: the baseline is empty until a fetch has succeeded, and the first
\* successful tick, with or without failed ticks before it, invokes fn with
\* an Added change for every device of the fetched snapshot, in its order,
\* and with no Removed change.
C6_FirstTickAddsAll ==
    \A e \in Engines :
        /\ Len(fetched[e]) = 0 => devices[e] = <<>>
        /\ TickDoneOk(e) /\ Len(fetched[e]) = 1
              => calls[e] = [i \in 1..Len(fetched[e][1]) |->
                               Call(<<ChangedDevice(fetched[e][1][i], DeviceAdded)>>, "nil")]

\* The first successful tick came after a failed one and reported two devices.
C6_Witness ==
    /\ pc[1] = "wait"
    /\ outcomes[1] = <<"err", "ok">>
    /\ Len(calls[1]) = 2
    /\ calls[1][2].change[1].Change = DeviceAdded

\* C7: the ticks of an engine do not overlap. At most one tick is in flight;
\* when a tick begins, the invocations of the tick before it are over and
\* its baseline is in place, however often the timer fired meanwhile.
C7_TicksDoNotOverlap ==
    \A e \in Engines :
        /\ inFlight[e] \in {0, 1}
        /\ inFlight[e] = 0 <=> pc[e] \in {"idle", "wait"}
        /\ pc[e] = "login"
              => /\ devices[e] = LastSnapshot(e)
                 /\ changedDevices[e] = <<>>
                 /\ calls[e] = <<>>

\* The timer has fired three times while the first tick is still inside the
\* handler: one value waits in ticker.C, one was dropped, no tick has begun.
C7_Witness ==
    /\ pc[1] = "inFn"
    /\ Len(outcomes[1]) = 1
    /\ fired[1] = 3
    /\ tickerC[1] = 1
    /\ inFlight[1] = 1

\* C8 as stated: no tick begins after ticker.Stop has returned.
C8_NoTickAfterStop ==
    \A e \in Engines : startedAfterStop[e] = 0

\* C8 as amended: Stop does not interrupt a tick in progress (the watcher can
\* always take the tick's next step), the timer sends nothing after Stop, and
\* after Stop has returned at most one more tick begins: the one whose value
\* was already waiting in ticker.C when Stop was called.
C8_AtMostOneTickAfterStop ==
    \A e \in Engines :
        /\ stopped[e] => startedAfterStop[e] + tickerC[e] <= 1
        /\ ~stopped[e] => startedAfterStop[e] = 0
        /\ (stopped[e] /\ ~panicked /\ pc[e] \notin {"idle", "wait"}) => ENABLED watcher(e)

\* Stop returned while the watcher was inside Devices of the first tick, and
\* that tick went on to report its changes and to replace the baseline.
C8_Witness ==
    /\ stopPc[1] = "devices"
    /\ startedAfterStop[1] = 0
    /\ TickDoneOk(1)
    /\ Len(outcomes[1]) = 1
    /\ calls[1] # <<>>
    /\ devices[1] = LastSnapshot(1)
    /\ devices[1] # <<>>

\* C9, for the sequences of at least one device (a sequence of none fails
\* the round trip as well): decoding the reference encoding of a sequence of
\* devices returns no error and the same devices in the same order.
C9_RoundTrip ==
    (dpc = "done" /\ recs # <<>> /\ AllDevices(recs)
        /\ input = encodeDevices(SourceDevices(recs)))
    => decoded = ParseResult(FALSE, "nil", SourceDevices(recs))

\* The device substrings of an input of at least two characters.
DeviceStrings(s) == Split(SliceFrom(s, 2), "@")

\* The device substring does not split into eight fields, or its field 3 is
\* no MAC address.
Malformed(devStr) ==
    LET parts == Split(devStr, ";")
    IN  Len(parts) # 8 \/ ~ParseMAC(parts[4]).ok

\* C10: when a device substring of the input does not split on ';' into eight
\* fields, or its field 3 is no MAC address, parseDevicesString returns an
\* error and no device, whatever well-formed substrings come before it.
C10_AllOrNothing ==
    (dpc = "done" /\ Len(input) >= 2
        /\ \E i \in 1..Len(DeviceStrings(input)) : Malformed(DeviceStrings(input)[i]))
    => /\ ~decoded.panicked
       /\ decoded.err # "nil"
       /\ decoded.devs = <<>>

\* A well-formed record followed by one whose field 3 is no MAC address.
C10_Witness ==
    /\ dpc = "done"
    /\ recs = <<1, 7>>
    /\ ~Malformed(DeviceStrings(input)[1])
    /\ Malformed(DeviceStrings(input)[2])
    /\ decoded = ParseResult(FALSE, "mac", <<>>)

\* The text is a decimal integer with an optional sign.
IsSignedDecimal(s) ==
    LET body == IF Len(s) > 0 /\ s[1] \in {"+", "-"} THEN Tail(s) ELSE s
    IN  Len(body) > 0 /\ \A i \in 1..Len(body) : IsDigit(body[i])

\* The number a signal or link-rate field stands for: 0 when it is empty.
NumberOf(s) ==
    IF s = <<>> THEN 0
    ELSE IF s[1] = "-" THEN -DigitsVal(Tail(s))
    ELSE IF s[1] = "+" THEN DigitsVal(Tail(s))
    ELSE DigitsVal(s)

\* Field k (from 0) of device substring i of the input.
Field(s, i, k) == Split(DeviceStrings(s)[i], ";")[k + 1]

Exchanges(e) == {tickCalls[e][k] : k \in 1..Len(tickCalls[e])}

\* C12: when the router's answer decodes, Login returns an error exactly
\* when the ResponseCode is not zero; Devices with a ResponseCode other than
\* zero returns an error and no device without running the decoder (an
\* answer whose NewAttachDevice would abort the decoder does not abort it),
\* and with ResponseCode zero it returns what the decoder returns. The tick
\* goes on with that result: the error is the one handed to the handler, the
\* devices are the fetched snapshot.
C12_CodeIsChecked ==
    \A e \in Engines : \A x \in Exchanges(e) :
        x.resp.kind = "ok" =>
          /\ x.fn = "Login" =>
               /\ x.res.err = "nil" <=> x.resp.code = 0
               /\ (x.resp.code # 0 /\ pc[e] = "failed") => err[e] = x.res.err
          /\ (x.fn = "Devices" /\ x.resp.code # 0) =>
               /\ x.res.err # "nil"
               /\ x.res.devs = <<>>
               /\ ~x.res.panicked
               /\ ~panicked
               /\ pc[e] = "failed" => err[e] = x.res.err
               /\ Last(outcomes[e]) = "err"
          /\ (x.fn = "Devices" /\ x.resp.code = 0) =>
               /\ x.res = parseDevicesString(x.resp.payload)
               /\ panicked = x.res.panicked
               /\ (~x.res.panicked /\ x.res.err # "nil" /\ pc[e] = "failed")
                  => err[e] = x.res.err
               /\ (~x.res.panicked /\ x.res.err = "nil")
                  => /\ Last(outcomes[e]) = "ok"
                     /\ LastSnapshot(e) = x.res.devs

\* Devices has answered a ResponseCode other than zero whose NewAttachDevice
\* is shorter than two characters, after a Login with ResponseCode zero, and
\* the tick is about to report the error.
C12_Witness ==
    /\ pc[1] = "failed"
    /\ Len(tickCalls[1]) = 2
    /\ tickCalls[1][1].resp = Response("ok", 0, <<>>)
    /\ tickCalls[1][2].fn = "Devices"
    /\ tickCalls[1][2].resp = Response("ok", 1, <<>>)
    /\ err[1] = "devices-code"

\* C13: in every tick Login is called first and Devices after it, each at
\* most once, and Devices is not called in a tick whose Login returned an
\* error: that tick reports Login's error.
C13_LoginBeforeDevices ==
    \A e \in Engines :
        LET t == tickCalls[e]
        IN  /\ Len(t) <= 2
            /\ Len(t) >= 1 => t[1].fn = "Login"
            /\ Len(t) = 2 => (t[2].fn = "Devices" /\ t[1].res.err = "nil")
            /\ pc[e] = "login" => t = <<>>
            /\ (pc[e] = "devices" /\ ~panicked) => Len(t) = 1
            /\ pc[e] \in {"notify", "inFn"} => Len(t) = 2
            /\ pc[e] \in {"failed", "inErrFn"} =>
                 /\ Len(t) >= 1
                 /\ Len(t) = 1 <=> t[1].res.err # "nil"
                 /\ Len(t) = 1 => err[e] = t[1].res.err

\* The second tick's Login has failed on the ResponseCode and the handler is
\* running with that error; Devices has not been called in this tick.
C13_Witness ==
    /\ pc[1] = "inErrFn"
    /\ Len(outcomes[1]) = 2
    /\ Len(tickCalls[1]) = 1
    /\ tickCalls[1][1].fn = "Login"
    /\ tickCalls[1][1].res.err = "login-code"

\* C14: Login and Devices, whether they succeed or fail, leave the client
\* as NewClient made it, over any number of ticks: SessionID is
\* DefaultSessionID, Port is 5000, Host, Username and Password are the
\* arguments of NewClient.
C14_ClientUnchanged ==
    /\ client = NewClient("192.168.1.1", "admin", "")
    /\ client.SessionID = DefaultSessionID
    /\ client.Port = 5000

\* Three ticks have called Login, with a failed tick among them, and the
\* third has called Devices as well.
C14_Witness ==
    /\ Len(outcomes[1]) = 3
    /\ outcomes[1][1] = "ok"
    /\ outcomes[1][2] = "err"
    /\ Len(tickCalls[1]) = 2
    /\ client.SessionID = DefaultSessionID

\* The device records of a snapshot.
Records(s) == {s[i] : i \in 1..Len(s)}

\* C15: in a successful tick the baseline stays the previous snapshot while
\* the handler is being invoked, and is replaced once every invocation has
\* returned; after the tick it is the fetched snapshot, record for record
\* and in order, also when the tick found no change. Hence the record of a
\* Removed change is a record of the latest successful snapshot before the
\* tick, and the record of an Added change is a record of the snapshot
\* fetched in the tick.
C15_BaselineReplacedAfterHandlers ==
    \A e \in Engines :
        /\ pc[e] = "inFn" => devices[e] = PrevSnapshot(e)
        /\ (pc[e] = "notify" /\ Len(calls[e]) < Len(changedDevices[e]))
              => devices[e] = PrevSnapshot(e)
        /\ TickDoneOk(e) => devices[e] = LastSnapshot(e)
        /\ (pc[e] \in {"notify", "inFn"} \/ TickDoneOk(e))
              => \A k \in 1..Len(calls[e]) :
                    LET c == calls[e][k].change[1]
                    IN  /\ c.Change = DeviceRemoved
                            => c.Device \in Records(PrevSnapshot(e))
                        /\ c.Change = DeviceAdded
                            => c.Device \in Records(LastSnapshot(e))

\* Three successful ticks: the second fetched the same MACs with other fields
\* for one device and found no change, the third lost that device, and its
\* Removed change carries the fields of the second snapshot.
C15_Witness ==
    /\ TickDoneOk(1)
    /\ fetched[1] = << <<DevA, DevB>>, <<DevA2, DevB>>, <<DevB, DevC>> >>
    /\ devices[1] = <<DevB, DevC>>
    /\ calls[1] = CallsOf(<< ChangedDevice(DevC, DeviceAdded),
                            ChangedDevice(DevA2, DeviceRemoved) >>)

\* C16: a failed tick does not end polling: under a timer that keeps
\* firing and a router that answers successfully again and again, a tick in
\* which Login or Devices returned an error is followed, sooner or later, by
\* a successful tick.
C16_FailedTickThenSuccess == TickDoneErr(1) ~> TickDoneOk(1)

\* C17: two engines are independent in every interleaving of their steps:
\* the timer of each is on from its own start, the baseline
\* of each is the latest snapshot that its own watcher fetched (the one
\* before it while its own handler runs), and the changes of a tick are the
\* difference between its own two latest snapshots, whatever the other
\* engine fetched, emitted or replaced in between.
C17_EnginesIndependent ==
    \A e \in Engines :
        LET own == getChangedDevices(PrevSnapshot(e), LastSnapshot(e))
        IN  /\ tickerOn[e] <=> pc[e] # "idle"
            /\ devices[e] = IF pc[e] \in {"notify", "inFn"}
                            THEN PrevSnapshot(e) ELSE LastSnapshot(e)
            /\ pc[e] \in {"notify", "inFn"} => changedDevices[e] = own
            /\ pc[e] = "inFn" => calls[e] = SubSeq(CallsOf(own), 1, next[e])
            /\ TickDoneOk(e) => calls[e] = CallsOf(own)

\* Both engines are inside a tick at once, between two invocations of their
\* handlers, with different snapshots.
C17_Witness ==
    /\ pc[1] = "inFn"
    /\ pc[2] = "inFn"
    /\ LastSnapshot(1) = <<DevA, DevB>>
    /\ LastSnapshot(2) = <<DevB, DevC>>
    /\ next[1] = 1
    /\ next[2] = 2

\* The MAC addresses of a snapshot.
MACs(s) == {s[i].MAC : i \in 1..Len(s)}

\* C18: when no snapshot fetched so far repeats a MAC address, every Added
\* change handed to the handler is for an address that the changes before it
\* leave absent and every Removed change for one they leave present, and
\* between ticks the set they leave is the set of addresses of the baseline
\* (inside a tick, once the last change is handed over, that of the fetched
\* snapshot).
C18_ReplayGivesBaseline ==
    \A e \in Engines :
        (\A i \in 1..Len(fetched[e]) : UniqueMACs(fetched[e][i]))
        => /\ replay[e].ok
           /\ pc[e] \notin {"notify", "inFn"} => replay[e].macs = MACs(devices[e])
           /\ (pc[e] = "notify" /\ next[e] > Len(changedDevices[e]))
                 => replay[e].macs = MACs(updatedDevices[e])

\* Three successful ticks: the third has replaced <<DevA2, DevB>>, fetched
\* after <<DevA, DevB>>, by <<DevB, DevC>>, and the replayed set has gained
\* MacC and lost MacA.
C18_Witness ==
    /\ TickDoneOk(1)
    /\ fetched[1] = << <<DevA, DevB>>, <<DevA2, DevB>>, <<DevB, DevC>> >>
    /\ replay[1] = [macs |-> {MacB, MacC}, ok |-> TRUE]

\* C19: whatever NewAttachDevice holds, the empty string and strings of one
\* character included, parseDevicesString returns devices or an error: the
\* decode is never aborted, and neither is the watcher that called it.
C19_DecodeNeverAborts ==
    /\ ~panicked
    /\ \A e \in Engines : \A x \in Exchanges(e) : ~x.res.panicked

\* C20: no successful fetch returns an empty snapshot, so the baseline is
\* not empty once a tick has succeeded; the answer "0@" makes Devices return
\* an error, and its tick hands the handler that error alone, no Removed
\* change, and leaves the baseline as it was.
C20_NoEmptySnapshot ==
    \A e \in Engines :
        /\ \A i \in 1..Len(fetched[e]) : fetched[e][i] # <<>>
        /\ (Len(fetched[e]) > 0 /\ pc[e] \notin {"notify", "inFn"}) => devices[e] # <<>>
        /\ \A x \in Exchanges(e) :
              (x.fn = "Devices" /\ x.resp = Response("ok", 0, <<"0", "@">>))
              => /\ x.res = ParseResult(FALSE, "parts", <<>>)
                 /\ pc[e] \in {"failed", "inErrFn", "wait"}
                 /\ Last(outcomes[e]) = "err"
                 /\ pc[e] = "failed" => calls[e] = <<>>
                 /\ pc[e] \in {"inErrFn", "wait"} => calls[e] = <<Call(<<>>, "parts")>>
                 /\ devices[e] = LastSnapshot(e)

\* The router has answered "0@" to an engine whose baseline holds two
\* devices; the tick is over, the handler got the error alone and the
\* baseline still holds the two devices.
C20_Witness ==
    /\ TickDoneErr(1)
    /\ Len(tickCalls[1]) = 2
    /\ tickCalls[1][2].resp.payload = encodeDevices(<<>>)
    /\ devices[1] = <<DevA, DevB>>
    /\ calls[1] = <<Call(<<>>, "parts")>>

====
